---------------------------- MODULE Spec2Model ----------------------------
(***************************************************************************)
(* A model of 0x02-redis_basic/exercise.py: the Cache class over a Redis   *)
(* backend, the count_calls and call_history decorators stacked on         *)
(* Cache.store, and the readers get / get_str / get_int.                   *)
(*                                                                         *)
(* Text is a sequence of Unicode code points and a byte string a sequence  *)
(* of numbers 0..255, so that str(), repr(), the UTF-8 codec and int()     *)
(* are computed and not assumed.  The Redis server is the four variables   *)
(* counter, inputs, outputs and data (one per key the program uses); each  *)
(* command of the client library is one atomic step.                       *)
(***************************************************************************)
EXTENDS Integers, Sequences, FiniteSets, TLC

\* ------------------------------------------------------------------ bounds

\* Number of invocations of Cache.store the history variable follows.
MaxCalls == 2
\* Number of clients that call concurrently under ConcSpec.
NumClients == 2
\* Number of documents insert_school puts into the collection.
MaxDocs == 2

\* ------------------------------------------------------------ text, bytes

\* A Python value: its type and its content as a sequence of numbers (the code
\* points of a str, the bytes of a bytes, the one number of an int, the tenths
\* of a float with one decimal).
StrV(s) == [type |-> "str", val |-> s]
BytesV(b) == [type |-> "bytes", val |-> b]
IntV(n) == [type |-> "int", val |-> <<n>>]
FloatV(tenths) == [type |-> "float", val |-> <<tenths>>]
None == [type |-> "none", val |-> <<>>]

\* ord() of the characters the model writes.
Ord(c) ==
  CASE c = " " -> 32 [] c = "'" -> 39 [] c = "(" -> 40 [] c = ")" -> 41
    [] c = "*" -> 42 [] c = "+" -> 43 [] c = "," -> 44 [] c = "-" -> 45
    [] c = "." -> 46
    [] c = "0" -> 48 [] c = "1" -> 49 [] c = "2" -> 50 [] c = "3" -> 51
    [] c = "4" -> 52 [] c = "5" -> 53 [] c = "6" -> 54 [] c = "7" -> 55
    [] c = "8" -> 56 [] c = "9" -> 57
    [] c = ":" -> 58 [] c = ">" -> 62
    [] c = "C" -> 67 [] c = "N" -> 78 [] c = "\\" -> 92
    [] c = "a" -> 97 [] c = "b" -> 98 [] c = "c" -> 99 [] c = "d" -> 100
    [] c = "e" -> 101 [] c = "f" -> 102 [] c = "h" -> 104 [] c = "i" -> 105 [] c = "k" -> 107
    [] c = "l" -> 108 [] c = "m" -> 109 [] c = "n" -> 110 [] c = "o" -> 111
    [] c = "r" -> 114 [] c = "s" -> 115 [] c = "t" -> 116 [] c = "w" -> 119
    [] c = "x" -> 120

\* A text literal, written as the tuple of its characters.
RECURSIVE T(_)
T(cs) == IF cs = <<>> THEN <<>> ELSE <<Ord(Head(cs))>> \o T(Tail(cs))

RECURSIVE Flatten(_)
Flatten(ss) == IF ss = <<>> THEN <<>> ELSE Head(ss) \o Flatten(Tail(ss))

\* The decimal digits of a natural number, most significant first.
RECURSIVE NatDigits(_)
NatDigits(n) ==
  IF n < 10 THEN <<48 + n>> ELSE NatDigits(n \div 10) \o <<48 + (n % 10)>>

\* str(n) and repr(n) of a Python int.
IntStr(n) == IF n < 0 THEN <<45>> \o NatDigits(-n) ELSE NatDigits(n)

\* bytes.encode / str.encode("utf-8") of a text of code points below 2048.
RECURSIVE Utf8Encode(_)
Utf8Encode(s) ==
  IF s = <<>> THEN <<>>
  ELSE LET c == Head(s) IN
       (IF c < 128 THEN <<c>> ELSE <<192 + (c \div 64), 128 + (c % 64)>>)
       \o Utf8Encode(Tail(s))

\* Whether a byte string is well-formed UTF-8 (one- and two-byte forms).
RECURSIVE Utf8Valid(_)
Utf8Valid(b) ==
  IF b = <<>> THEN TRUE
  ELSE IF b[1] < 128 THEN Utf8Valid(Tail(b))
  ELSE IF b[1] >= 194 /\ b[1] < 224 /\ Len(b) >= 2 /\ b[2] >= 128 /\ b[2] < 192
       THEN Utf8Valid(Tail(Tail(b)))
  ELSE FALSE

\* bytes.decode("utf-8") of a well-formed byte string.
RECURSIVE Utf8Decode(_)
Utf8Decode(b) ==
  IF b = <<>> THEN <<>>
  ELSE IF b[1] < 128 THEN <<b[1]>> \o Utf8Decode(Tail(b))
  ELSE <<(b[1] - 192) * 64 + (b[2] - 128)>> \o Utf8Decode(Tail(Tail(b)))

IsDigits(b) == Len(b) >= 1 /\ \A i \in 1..Len(b) : b[i] >= 48 /\ b[i] <= 57

RECURSIVE DigitsValue(_)
DigitsValue(b) ==
  IF b = <<>> THEN 0
  ELSE DigitsValue(SubSeq(b, 1, Len(b) - 1)) * 10 + (b[Len(b)] - 48)

\* Whether int(b) accepts the byte string: an optional sign, then digits.
IntParses(b) ==
  /\ Len(b) >= 1
  /\ IF b[1] = 43 \/ b[1] = 45 THEN IsDigits(Tail(b)) ELSE IsDigits(b)

\* int(b) of an accepted byte string.
IntParse(b) ==
  IF b[1] = 45 THEN 0 - DigitsValue(Tail(b))
  ELSE IF b[1] = 43 THEN DigitsValue(Tail(b))
  ELSE DigitsValue(b)

\* repr() of one byte inside a bytes literal: printable ASCII as it is, any
\* other byte as \xhh.  (The values of the model hold no quote and no backslash.)
HexDigit(d) == IF d < 10 THEN 48 + d ELSE 87 + d
ByteRepr(b) ==
  IF b >= 32 /\ b < 127 THEN <<b>>
  ELSE T(<<"\\", "x">>) \o <<HexDigit(b \div 16), HexDigit(b % 16)>>

\* repr(v).
Repr(v) ==
  CASE v.type = "str" -> T(<<"'">>) \o v.val \o T(<<"'">>)
    [] v.type = "bytes" ->
         T(<<"b", "'">>) \o Flatten([i \in 1..Len(v.val) |-> ByteRepr(v.val[i])])
         \o T(<<"'">>)
    [] v.type = "int" -> IntStr(v.val[1])
    [] v.type = "float" ->
         IntStr(v.val[1] \div 10) \o T(<<".">>) \o NatDigits(v.val[1] % 10)
    [] v.type = "none" -> T(<<"N", "o", "n", "e">>)

\* str(v): a str is itself, every other value its repr.
Str(v) == IF v.type = "str" THEN v.val ELSE Repr(v)

\* str(args) of a tuple of values: "()", "(x,)", "(x, y)".
RECURSIVE JoinRepr(_)
JoinRepr(args) ==
  IF args = <<>> THEN <<>>
  ELSE IF Len(args) = 1 THEN Repr(args[1])
  ELSE Repr(args[1]) \o T(<<",", " ">>) \o JoinRepr(Tail(args))

TupleStr(args) ==
  T(<<"(">>) \o JoinRepr(args)
  \o (IF Len(args) = 1 THEN T(<<",", ")">>) ELSE T(<<")">>))

\* What the client library sends for a value (redis-py's Encoder.encode):
\* bytes as they are, a str as UTF-8, an int or a float as the UTF-8 of its
\* repr; any other type is refused with DataError.
Encodable(v) == v.type \in {"str", "bytes", "int", "float"}
Encode(v) ==
  IF v.type = "bytes" THEN v.val
  ELSE IF v.type = "str" THEN Utf8Encode(v.val)
  ELSE Utf8Encode(Repr(v))

\* ------------------------------------------------------------------ inputs

\* The values callers pass to store: a str with a non-ASCII character, a bytes
\* that is not UTF-8, a negative int, a float, and None (a type the client
\* library refuses).
Values ==
  { StrV(T(<<"f">>) \o <<233>>), BytesV(<<102, 255>>), IntV(-12), FloatV(15),
    None }

\* The values callers pass by keyword.
KeywordValues == {StrV(T(<<"f">>) \o <<233>>)}

\* The forms of a call store(*args, **kwargs): store(v), store(data=v), store().
\* kwargs is <<>> for {} and <<v>> for {"data": v}.
CallForms ==
  {[args |-> <<v>>, kwargs |-> <<>>] : v \in Values}
  \cup {[args |-> <<>>, kwargs |-> <<v>>] : v \in KeywordValues}
  \cup {[args |-> <<>>, kwargs |-> <<>>]}

\* str(uuid.uuid4()): the identifiers the generator can produce, "k1" and "k2".
\* It may produce the same one twice.
KeyStr(k) == T(<<"k">>) \o IntStr(k)
KeySpace == {KeyStr(k) : k \in {1, 2}}

Procs == 1..NumClients

\* method.__qualname__ of the decorated method.
QualName == T(<<"C", "a", "c", "h", "e", ".", "s", "t", "o", "r", "e">>)

\* ------------------------------------------------------------------- state

VARIABLES
  counter,   \* Redis key "Cache.store": None when absent, else the bytes of a number
  inputs,    \* Redis list "Cache.store:inputs": a sequence of byte strings
  outputs,   \* Redis list "Cache.store:outputs"
  data,      \* the keys store() writes: key text -> None when absent, else bytes
  pc,        \* per client: where it is inside a call of the decorated store
  frame,     \* per client: the locals of the call in progress
  result,    \* per client: what its last completed operation returned or raised
  hist,      \* history: the invocations of the decorated store, in start order
  inOwner,   \* history: for each entry of inputs, the invocation that appended it
  outOwner,  \* history: for each entry of outputs, the invocation that appended it
  reset,     \* history: a Cache was constructed after the first one
  coll,      \* the MongoDB collection: a sequence of documents, in insertion order
  mres       \* what the last call of a MongoDB helper was given and returned or raised

vars ==
  <<counter, inputs, outputs, data, pc, frame, result, hist, inOwner, outOwner,
    reset, coll, mres>>
backend == <<counter, inputs, outputs, data>>
mongo == <<coll, mres>>
redis ==
  <<counter, inputs, outputs, data, pc, frame, result, hist, inOwner, outOwner,
    reset>>

Ret(v) == [kind |-> "ret", val |-> v]
Raise(e) == [kind |-> "raise", val |-> [type |-> e, val |-> <<>>]]
Running == [kind |-> "running", val |-> None]

NoFrame == [id |-> 0, args |-> <<>>, kwargs |-> <<>>, output |-> None]
Result(op, arg, raw, out, printed) ==
  [op |-> op, arg |-> arg, data |-> raw, out |-> out, printed |-> printed]
NoResult == Result("none", None, None, Running, <<>>)

\* The number stored under "Cache.store", 0 when the key is absent.
CounterValue == IF counter = None THEN 0 ELSE IntParse(counter.val)

\* Cache.__init__: connect and FLUSHDB.  Every Cache object talks to the same
\* server and database, so a flush empties what all of them see.
Flushed ==
  /\ counter' = None
  /\ inputs' = <<>>
  /\ outputs' = <<>>
  /\ data' = [k \in KeySpace |-> None]
  /\ inOwner' = <<>>
  /\ outOwner' = <<>>

\* The values given to the MongoDB helpers and held in documents: a str is one
\* text, a list is a sequence of texts, an ObjectId is the text of a number.
MStr(s) == [type |-> "str", items |-> <<s>>]
MList(ss) == [type |-> "list", items |-> ss]
MOid(n) == [type |-> "oid", items |-> <<ToString(n)>>]
MNone == [type |-> "none", items |-> <<>>]

MongoResult(op, name, topics, before, out) ==
  [op |-> op, name |-> name, topics |-> topics, before |-> before, out |-> out]
NoMongoResult == MongoResult("none", MNone, MNone, <<>>, Running)

Init ==
  /\ coll = <<>>
  /\ mres = NoMongoResult
  /\ counter = None
  /\ inputs = <<>>
  /\ outputs = <<>>
  /\ data = [k \in KeySpace |-> None]
  /\ pc = [p \in Procs |-> "idle"]
  /\ frame = [p \in Procs |-> NoFrame]
  /\ result = [p \in Procs |-> NoResult]
  /\ hist = <<>>
  /\ inOwner = <<>>
  /\ outOwner = <<>>
  /\ reset = FALSE

\* A client constructs another Cache object.
NewCache(p) ==
  /\ pc[p] = "idle"
  /\ UNCHANGED mongo
  /\ Flushed
  /\ result' = [result EXCEPT ![p] = Result("init", None, None, Ret(None), <<>>)]
  /\ reset' = TRUE
  /\ UNCHANGED <<pc, frame, hist>>

\* ------------------------------------------------- the decorated Cache.store

\* A variant of RPush: LPUSH, the entry goes to the head of the list.
LPush(list, entry) == <<entry>> \o list

\* RPUSH: the entry goes to the tail of the list.
RPush(list, entry) == Append(list, entry)

\* call_history.wrapper: rpush(input_key, str(args)).  The entry is the text of
\* the positional tuple; the client library sends it as UTF-8.
\* A variant of InputEntry: the keyword arguments are recorded after the
\* positional ones.
InputEntryWithKwargs(args, kwargs) == Utf8Encode(TupleStr(args \o kwargs))

InputEntry(args, kwargs) == Utf8Encode(TupleStr(args))

\* A variant of OutputEntry: the entry is repr(output), the key in quotes.
OutputEntryRepr(output) == Utf8Encode(Repr(output))

\* call_history.wrapper: rpush(output_key, str(output)).
OutputEntry(output) == Utf8Encode(Str(output))

\* A variant of WrapperReturn: the wrapper ends without a return statement.
WrapperReturnsNone(output) == None

\* call_history.wrapper: return output.
WrapperReturn(output) == output

\* A variant of Incr: the key is SET to 1 on every call.
IncrSetOne(c) == BytesV(Utf8Encode(IntStr(1)))

\* INCR: an absent key counts from 0; the number is kept as its decimal text.
Incr(c) == BytesV(Utf8Encode(IntStr((IF c = None THEN 0 ELSE IntParse(c.val)) + 1)))

\* Binding store(self, data) to the call: exactly one argument, given by
\* position or as data=...; anything else is a TypeError.
Binds(args, kwargs) == Len(args) + Len(kwargs) = 1
BoundData(args, kwargs) == IF Len(args) = 1 THEN args[1] ELSE kwargs[1]

\* SET key data: the outcomes the body can see.  A value the client library
\* cannot encode is always refused; any SET may fail at the server.
SetOutcomes(v) == IF Encodable(v) THEN {"ok", "RedisError"} ELSE {"DataError"}

\* The client starts a call: call_history.wrapper appends the input entry and
\* goes on to call the method it wraps, which is count_calls.wrapper.
HistoryPushInput(p) ==
  /\ pc[p] = "idle"
  /\ UNCHANGED mongo
  /\ Len(hist) < MaxCalls
  /\ \E c \in CallForms :
       /\ inputs' = RPush(inputs, InputEntry(c.args, c.kwargs))
       /\ frame' = [frame EXCEPT ![p] =
                      [id |-> Len(hist) + 1, args |-> c.args, kwargs |-> c.kwargs,
                       output |-> None]]
       /\ hist' = Append(hist, [args |-> c.args, kwargs |-> c.kwargs,
                                c0 |-> CounterValue, in0 |-> Len(inputs),
                                out0 |-> Len(outputs),
                                key |-> None, ret |-> Running])
  /\ inOwner' = RPush(inOwner, Len(hist) + 1)
  /\ pc' = [pc EXCEPT ![p] = "count"]
  /\ result' = [result EXCEPT ![p] = NoResult]
  /\ UNCHANGED <<counter, outputs, data, outOwner, reset>>

\* A variant of CountIncr: the wrapper calls the method without counting.
CountIncrOmitted(p) ==
  /\ pc[p] = "count"
  /\ UNCHANGED mongo
  /\ pc' = [pc EXCEPT ![p] = "body"]
  /\ UNCHANGED <<backend, frame, result, hist, inOwner, outOwner, reset>>

\* count_calls.wrapper: incr(key), then call the method it wraps, the body.
CountIncr(p) ==
  /\ pc[p] = "count"
  /\ UNCHANGED mongo
  /\ counter' = Incr(counter)
  /\ pc' = [pc EXCEPT ![p] = "body"]
  /\ UNCHANGED <<inputs, outputs, data, frame, result, hist, inOwner, outOwner,
                 reset>>

\* A variant of Propagate: a wrapper catches the exception and returns None.
PropagateSwallowed(p, e) ==
  /\ pc' = [pc EXCEPT ![p] = "idle"]
  /\ result' = [result EXCEPT ![p] =
                  Result("store", None, None, Ret(None), <<>>)]
  /\ hist' = [hist EXCEPT ![frame[p].id].ret = Ret(None)]
  /\ frame' = [frame EXCEPT ![p] = NoFrame]

\* An exception leaves the body; neither wrapper catches it, so it reaches the
\* caller of the decorated store.
Propagate(p, e) ==
  /\ pc' = [pc EXCEPT ![p] = "idle"]
  /\ result' = [result EXCEPT ![p] =
                  Result("store", None, None, Raise(e), <<>>)]
  /\ hist' = [hist EXCEPT ![frame[p].id].ret = Raise(e)]
  /\ frame' = [frame EXCEPT ![p] = NoFrame]

\* SET after a FLUSHDB: the key is written and every other key is gone.
SetAfterFlush(d, k, b) == [x \in DOMAIN d |-> IF x = k THEN b ELSE None]

\* SET key value: the key holds the value, every other key is as it was.
RedisSet(d, k, b) == [d EXCEPT ![k] = b]

\* The body of store: key = str(uuid.uuid4()); set(key, data); return key.
\* The key returns through count_calls.wrapper into call_history.wrapper's
\* local output.
StoreBody(p) ==
  /\ pc[p] = "body"
  /\ UNCHANGED mongo
  /\ LET f == frame[p] IN
     IF ~Binds(f.args, f.kwargs)
     THEN /\ Propagate(p, "TypeError")
          /\ UNCHANGED <<backend, inOwner, outOwner, reset>>
     ELSE \E k \in KeySpace, o \in SetOutcomes(BoundData(f.args, f.kwargs)) :
            IF o = "ok"
            THEN /\ data' = RedisSet(data, k,
                                   BytesV(Encode(BoundData(f.args, f.kwargs))))
                 /\ frame' = [frame EXCEPT ![p].output = StrV(k)]
                 /\ hist' = [hist EXCEPT ![f.id].key = StrV(k)]
                 /\ pc' = [pc EXCEPT ![p] = "record"]
                 /\ UNCHANGED <<counter, inputs, outputs, result, inOwner,
                                outOwner, reset>>
            ELSE /\ Propagate(p, o)
                 /\ UNCHANGED <<backend, inOwner, outOwner, reset>>

\* call_history.wrapper after the call returned: append the output entry and
\* return the output.
HistoryPushOutput(p) ==
  /\ pc[p] = "record"
  /\ UNCHANGED mongo
  /\ LET f == frame[p] IN
       /\ outputs' = RPush(outputs, OutputEntry(f.output))
       /\ outOwner' = RPush(outOwner, f.id)
       /\ result' = [result EXCEPT ![p] =
                       Result("store", BoundData(f.args, f.kwargs), None,
                              Ret(WrapperReturn(f.output)), <<>>)]
       /\ hist' = [hist EXCEPT ![f.id].ret = Ret(WrapperReturn(f.output))]
  /\ pc' = [pc EXCEPT ![p] = "idle"]
  /\ frame' = [frame EXCEPT ![p] = NoFrame]
  /\ UNCHANGED <<counter, inputs, data, inOwner, reset>>

\* ------------------------------------------------------------- the readers

\* The decode functions callers pass to get: none, get_str's, get_int's.
\* Decodes(fn, b): fn(b) returns; Decoded(fn, b): what it returns;
\* DecodeError(fn): what it raises otherwise.
Decodes(fn, b) ==
  CASE fn = "str" -> Utf8Valid(b)
    [] fn = "int" -> IntParses(b)
Decoded(fn, b) ==
  CASE fn = "str" -> StrV(Utf8Decode(b))
    [] fn = "int" -> IntV(IntParse(b))
DecodeError(fn) ==
  CASE fn = "str" -> "UnicodeDecodeError"
    [] fn = "int" -> "ValueError"

\* A variant of CacheGet: the decode function is never applied.
CacheGetRaw(raw, fn) == Ret(raw)

\* A variant of CacheGet: the decode function is applied before the test for
\* None (None has no decode method and int(None) is a TypeError).
CacheGetEager(raw, fn) ==
  IF fn = "none" THEN Ret(raw)
  ELSE IF raw = None
       THEN Raise(IF fn = "str" THEN "AttributeError" ELSE "TypeError")
  ELSE IF Decodes(fn, raw.val) THEN Ret(Decoded(fn, raw.val))
  ELSE Raise(DecodeError(fn))

\* Cache.get after data = self._redis.get(key): None for an absent key, else
\* fn(data) when a function is given, else data.
CacheGet(raw, fn) ==
  IF raw = None THEN Ret(None)
  ELSE IF fn = "none" THEN Ret(raw)
  ELSE IF Decodes(fn, raw.val) THEN Ret(Decoded(fn, raw.val))
  ELSE Raise(DecodeError(fn))

\* A variant of Read: the reader is decorated with count_calls as store is.
ReadCounted(p, op, fn) ==
  /\ pc[p] = "idle"
  /\ UNCHANGED mongo
  /\ \E k \in KeySpace :
       result' = [result EXCEPT ![p] =
                    Result(op, StrV(k), data[k], CacheGet(data[k], fn), <<>>)]
  /\ counter' = Incr(counter)
  /\ UNCHANGED <<inputs, outputs, data, pc, frame, hist, inOwner, outOwner,
                 reset>>

\* get, get_str and get_int: one GET of the key, then the conversion.
Read(p, op, fn) ==
  /\ pc[p] = "idle"
  /\ UNCHANGED mongo
  /\ \E k \in KeySpace :
       result' = [result EXCEPT ![p] =
                    Result(op, StrV(k), data[k], CacheGet(data[k], fn), <<>>)]
  /\ UNCHANGED <<backend, pc, frame, hist, inOwner, outOwner, reset>>

Get(p) == Read(p, "get", "none")
GetStr(p) == Read(p, "get_str", "str")
GetInt(p) == Read(p, "get_int", "int")

\* ---------------------------------------------------------------- replay

\* The transcript of a call log: "<name> was called <N> times:" and one line
\* "<name>(*<input>) -> <output>" per pair of entries, in order.
Header(n) ==
  QualName \o T(<<" ", "w", "a", "s", " ", "c", "a", "l", "l", "e", "d", " ">>)
  \o IntStr(n) \o T(<<" ", "t", "i", "m", "e", "s", ":">>)
\* A variant of Line: the output is printed before the input.
LineSwapped(i, o) ==
  QualName \o T(<<"(", "*">>) \o Utf8Decode(o)
  \o T(<<")", " ", "-", ">", " ">>) \o Utf8Decode(i)

Line(i, o) ==
  QualName \o T(<<"(", "*">>) \o Utf8Decode(i)
  \o T(<<")", " ", "-", ">", " ">>) \o Utf8Decode(o)

RECURSIVE Lines(_, _)
Lines(ins, outs) ==
  IF ins = <<>> \/ outs = <<>> THEN <<>>
  ELSE <<Line(Head(ins), Head(outs))>> \o Lines(Tail(ins), Tail(outs))

Transcript(ins, outs) == <<Header(Len(ins))>> \o Lines(ins, outs)

\* replay(Cache.store): read both lists in full and print the transcript.  What
\* it does when the two lists differ in length is not stated: it may fail its
\* assertion or print the pairs that exist.
Replay(p) ==
  /\ pc[p] = "idle"
  /\ UNCHANGED mongo
  /\ \E o \in {"print", "AssertionError"} :
       /\ o = "AssertionError" => Len(inputs) # Len(outputs)
       /\ result' = [result EXCEPT ![p] =
                       IF o = "print"
                       THEN Result("replay", None, None, Ret(None),
                                   Transcript(inputs, outputs))
                       ELSE Result("replay", None, None, Raise(o), <<>>)]
  /\ UNCHANGED <<backend, pc, frame, hist, inOwner, outOwner, reset>>

\* ----------------------------------------------------------- specifications

\* One command of a call of the decorated store.
Call(p) ==
  \/ HistoryPushInput(p)
  \/ CountIncr(p)
  \/ StoreBody(p)
  \/ HistoryPushOutput(p)

Step(p) ==
  \/ NewCache(p)
  \/ Call(p)
  \/ Get(p)
  \/ GetStr(p)
  \/ GetInt(p)
  \/ Replay(p)

\* One client: every operation runs to completion before the next begins.
Next == Step(1)
Spec == Init /\ [][Next]_vars

\* NumClients clients calling the decorated store on the same server, their
\* commands interleaved.
\* The concurrent callers pass one positional value each, a str or an int, so
\* that two calls can be told apart by their arguments.
ConcValues == {v \in Values : v.type \in {"str", "int"}}
ConcCalls ==
  \A i \in 1..Len(hist) :
    hist[i].kwargs = <<>> /\ hist[i].args \in {<<v>> : v \in ConcValues}
ConcCall(p) ==
  \/ HistoryPushInput(p) /\ ConcCalls'
  \/ CountIncr(p)
  \/ StoreBody(p)
  \/ HistoryPushOutput(p)
ConcNext == \E p \in Procs : ConcCall(p)
ConcSpec == Init /\ [][ConcNext]_vars

\* ------------------------------------------------------ the MongoDB helpers

\* The documents callers insert: {"name": n} and {"name": n, "address": a}.
SchoolNames == {"Holberton school", "UCSF"}
InsertKwargs ==
  {[f \in {"name"} |-> MStr(n)] : n \in SchoolNames}
  \cup {[f \in {"name", "address"} |->
           IF f = "name" THEN MStr(n) ELSE MStr("972 Mission street")] :
         n \in SchoolNames}

\* The arguments callers give to update_topics: the name of a school, and as
\* topics a list of texts, the empty list, or a single text.
NameArgs == {MStr(n) : n \in SchoolNames}
TopicArgs == {MList(<<"Sys admin", "AI">>), MList(<<>>), MStr("AI")}

\* A dict with the fields of d and those of more, more's values winning.
Merge(d, more) ==
  [f \in DOMAIN d \cup DOMAIN more |-> IF f \in DOMAIN more THEN more[f] ELSE d[f]]

\* insert_school: insert(kwargs) gives the document an _id and returns it.
InsertSchool ==
  /\ Len(coll) < MaxDocs
  /\ \E kwargs \in InsertKwargs :
       LET id == MOid(Len(coll) + 1) IN
       /\ coll' = Append(coll, Merge(kwargs, [f \in {"_id"} |-> id]))
       /\ mres' = MongoResult("insert_school", MNone, MNone, coll, Ret(id))
  /\ UNCHANGED redis

\* A value can be the key of a dict display when it is hashable; a list is not.
Hashable(v) == v.type # "list"
DictKey(v) == v.items[1]

\* The names an expression in 10-update_topics.py can refer to: the function
\* the module defines and the built-in constants.  "true" is not one of them.
BoundNames == {"update_topics", "True", "False", "None"}

\* A document matches a query when it has every field of the query with the
\* value the query gives.
Matches(d, query) ==
  \A f \in DOMAIN query : f \in DOMAIN d /\ d[f] = query[f]

\* Collection.update(spec, document, upsert): without multi=True the first
\* matching document gets the $set fields; with no match and upsert set, a
\* document made of the query and the $set fields is inserted.
CollectionUpdate(c, query, set, upsert) ==
  LET hits == {i \in 1..Len(c) : Matches(c[i], query)} IN
  IF hits = {}
  THEN IF upsert
       THEN Append(c, Merge(Merge(query, set),
                            [f \in {"_id"} |-> MOid(Len(c) + 1)]))
       ELSE c
  ELSE LET first == CHOOSE i \in hits : \A j \in hits : i <= j IN
       [i \in 1..Len(c) |-> IF i = first THEN Merge(c[i], set) ELSE c[i]]

\* update_topics(mongo_collection, name, topics), line by line:
\*   query = {name: name}              the field is named by the VALUE of name
\*   value = {"$set": {topics: topics}}  TypeError when topics is a list
\*   optional = {"multi": true}        NameError: the name true is not bound
\*   document = mongo_collection.update(query, value, optional)
\* The call of update, never reached, passes optional in the place of upsert;
\* what it returns is the server's reply, which is not followed here.
UpdateTopicsOutcome(c, name, topics) ==
  IF ~Hashable(topics)
  THEN [coll |-> c, out |-> Raise("TypeError")]
  ELSE IF "true" \notin BoundNames
  THEN [coll |-> c, out |-> Raise("NameError")]
  ELSE [coll |-> CollectionUpdate(c, [f \in {DictKey(name)} |-> name],
                                  [f \in {DictKey(topics)} |-> topics], TRUE),
        out |-> Ret(MNone)]

UpdateTopics ==
  /\ \E name \in NameArgs, topics \in TopicArgs :
       LET o == UpdateTopicsOutcome(coll, name, topics) IN
       /\ coll' = o.coll
       /\ mres' = MongoResult("update_topics", name, topics, coll, o.out)
  /\ UNCHANGED redis

\* Callers of the two MongoDB helpers on one collection.
MongoNext == InsertSchool \/ UpdateTopics
MongoSpec == Init /\ [][MongoNext]_vars

\* --------------------------------------------------------------- properties

\* No call of the decorated store is in progress.
Quiescent == \A p \in Procs : pc[p] = "idle"

Returned(i) == hist[i].ret.kind = "ret"
Failed(i) == hist[i].ret.kind = "raise"

IsPrefix(s, t) == Len(s) <= Len(t) /\ SubSeq(t, 1, Len(s)) = s

Reads == {"get", "get_str", "get_int"}

\* C1: after N sequential invocations of the decorated store, with no Cache
\* constructed in between, the number under "Cache.store" is N, and the key is
\* absent when N = 0.  Invocations that raised are counted.
C1_CounterEqualsInvocations ==
  (Quiescent /\ ~reset) =>
    /\ CounterValue = Len(hist)
    /\ (Len(hist) = 0 <=> counter = None)

\* C1's case: two invocations done, the first raised and the second returned.
C1_Witness ==
  /\ Quiescent /\ ~reset
  /\ Len(hist) = 2 /\ Failed(1) /\ Returned(2)
  /\ counter = BytesV(<<50>>)

\* Each call form has one serialization: no other form writes the same entry.
OnlyFormOf(entry, c) ==
  \A d \in CallForms :
    InputEntry(d.args, d.kwargs) = entry => (d.args = c.args /\ d.kwargs = c.kwargs)

\* C2: after N sequential invocations that all returned, both lists have length
\* N, the i-th input entry is the serialization of the arguments of the i-th
\* call and of no other arguments, and the i-th output entry is the text of the
\* key the i-th call returned.
C2_LogsRecordEveryCall ==
  (Quiescent /\ ~reset /\ \A i \in 1..Len(hist) : Returned(i)) =>
    /\ Len(inputs) = Len(hist)
    /\ Len(outputs) = Len(hist)
    /\ \A i \in 1..Len(hist) :
         /\ inputs[i] = InputEntry(hist[i].args, hist[i].kwargs)
         /\ OnlyFormOf(inputs[i], hist[i])
         /\ outputs[i] = Utf8Encode(hist[i].ret.val.val)

\* C2's case: a call store(data=v) returned and its input entry is "()".
C2_Witness ==
  /\ Quiescent /\ ~reset
  /\ Len(hist) = 1 /\ Returned(1)
  /\ hist[1].kwargs # <<>>
  /\ inputs = <<T(<<"(", ")">>)>>

\* A step in which client p reads, with op, the key its store just returned.
ReadsBack(p, op) ==
  /\ result[p].op = "store" /\ result[p].out.kind = "ret"
  /\ result'[p].op = op
  /\ result'[p].arg = result[p].out.val

\* C3 as stated: get of the key just returned, with no decode function, returns
\* the value that was stored.
C3_RawGetReturnsValue ==
  [][\A p \in Procs :
       ReadsBack(p, "get") => result'[p].out = Ret(result[p].arg)]_vars

\* C3 amended: get with no decode function returns the bytes the value was
\* sent as (the value itself only when it is a bytes); get_int returns a stored
\* int; get_str returns a stored str.
C3_RoundTrip ==
  [][\A p \in Procs :
       LET v == result[p].arg IN
       /\ ReadsBack(p, "get") =>
            /\ result'[p].out = Ret(BytesV(Encode(v)))
            /\ (v.type = "bytes" => result'[p].out = Ret(v))
       /\ (ReadsBack(p, "get_int") /\ v.type = "int") => result'[p].out = Ret(v)
       /\ (ReadsBack(p, "get_str") /\ v.type = "str") => result'[p].out = Ret(v)
    ]_vars

\* C3's case: the last invocation stored a str with a two-byte character, and
\* get_str of the key it returned gave the str back.
C3_Witness ==
  /\ ~reset /\ Len(hist) >= 1 /\ Returned(Len(hist))
  /\ hist[Len(hist)].args = <<StrV(T(<<"f">>) \o <<233>>)>>
  /\ result[1].op = "get_str"
  /\ result[1].arg = hist[Len(hist)].key
  /\ result[1].data = BytesV(<<102, 195, 169>>)
  /\ result[1].out = Ret(StrV(T(<<"f">>) \o <<233>>))

\* C4: what the decorated store returns is the key its body generated, and
\* when it returns that key holds the bytes of the value passed to the call.
C4_WrappersTransparent ==
  /\ \A i \in 1..Len(hist) :
       Returned(i) => (hist[i].key # None /\ hist[i].ret = Ret(hist[i].key))
  /\ \A p \in Procs :
       (result[p].op = "store" /\ result[p].out.kind = "ret") =>
         /\ result[p].out.val.type = "str"
         /\ result[p].out.val.val \in KeySpace
         /\ data[result[p].out.val.val] = BytesV(Encode(result[p].arg))

\* C4's case: a call store(-12) has just returned "k2", which holds b"-12".
C4_Witness ==
  /\ result[1].op = "store"
  /\ result[1].arg = IntV(-12)
  /\ result[1].out = Ret(StrV(KeyStr(2)))
  /\ data[KeyStr(2)] = BytesV(T(<<"-", "1", "2">>))

\* The counter did not decrease and no entry left either list.
NothingRemoved ==
  /\ CounterValue' >= CounterValue
  /\ IsPrefix(inputs, inputs')
  /\ IsPrefix(outputs, outputs')

\* C5 as stated: no public operation, constructing a Cache included, lowers
\* the counter or removes a log entry.
C5_NeverCleared == [][NothingRemoved]_vars

\* C5 amended: store, get, get_str and get_int never lower the counter and
\* never remove a log entry; only the construction of a Cache, which flushes
\* the database, does.
C5_ClearedOnlyByConstruction ==
  [][(\E p \in Procs : NewCache(p)) \/ NothingRemoved]_vars

\* C5's case: after a Cache was constructed and two invocations and a read
\* followed, the counter is 2 and both entries of the input list are there.
C5_Witness ==
  /\ reset /\ Quiescent
  /\ result[1].op \in Reads
  /\ CounterValue = 2 /\ Len(inputs) = 2 /\ Len(outputs) >= 1

\* C6: every call of the decorated store, returned or raised, leaves the
\* counter exactly one above what it was when the call began.
C6_CountedOncePerAttempt ==
  \A p \in Procs :
    (pc[p] = "idle" /\ result[p].op = "store") =>
      CounterValue = hist[Len(hist)].c0 + 1

\* C6's case: the second call failed at SET and the counter went from 1 to 2.
C6_Witness ==
  /\ pc[1] = "idle" /\ result[1].op = "store"
  /\ result[1].out = Raise("RedisError")
  /\ Len(hist) = 2 /\ hist[2].c0 = 1 /\ hist[2].key = None
  /\ counter = BytesV(<<50>>)

\* C7: a read of an absent key returns None, whatever decode function the
\* read passes; it does not raise.
C7_AbsentKeyGivesNone ==
  \A p \in Procs :
    (result[p].op \in Reads /\ result[p].data = None) => result[p].out = Ret(None)

\* C7's case: get_int of a key that holds nothing returned None.
C7_Witness ==
  /\ result[1].op = "get_int"
  /\ data[result[1].arg.val] = None
  /\ result[1].data = None
  /\ result[1].out = Ret(None)

\* The invocations that returned, in start order.
RECURSIVE ReturnedFrom(_)
ReturnedFrom(i) ==
  IF i > Len(hist) THEN <<>>
  ELSE (IF Returned(i) THEN <<i>> ELSE <<>>) \o ReturnedFrom(i + 1)

\* The i-th entry of each list was written by the invocation that owns it.
EntriesAreOwners ==
  /\ \A i \in 1..Len(inputs) :
       inputs[i] = InputEntry(hist[inOwner[i]].args, hist[inOwner[i]].kwargs)
  /\ \A i \in 1..Len(outputs) :
       outputs[i] = Utf8Encode(Str(hist[outOwner[i]].ret.val))

\* C8 as stated: in a quiescent state after N invocations, whatever their
\* outcomes, both lists have length N and the i-th entries of the two belong
\* to the same invocation.
C8_LogsParallel ==
  (Quiescent /\ ~reset) =>
    /\ Len(inputs) = Len(hist)
    /\ Len(outputs) = Len(hist)
    /\ \A i \in 1..Len(hist) : inOwner[i] = outOwner[i]

\* C8 amended: in a quiescent state after N sequential invocations the input
\* list has one entry per invocation and the output list one entry per
\* invocation that returned, each in call order; when every invocation
\* returned, both have length N and the i-th entries belong to invocation i.
C8_LogsParallelWhenAllReturn ==
  (Quiescent /\ ~reset) =>
    /\ Len(inputs) = Len(hist)
    /\ inOwner = [i \in 1..Len(hist) |-> i]
    /\ outOwner = ReturnedFrom(1)
    /\ Len(outputs) = Len(outOwner)
    /\ EntriesAreOwners
    /\ (\A i \in 1..Len(hist) : Returned(i)) =>
         /\ Len(outputs) = Len(hist)
         /\ \A i \in 1..Len(hist) : inOwner[i] = i /\ outOwner[i] = i

\* C8's case: the first invocation raised and the second returned, so the
\* first output entry belongs to the second invocation.
C8_Witness ==
  /\ Quiescent /\ ~reset
  /\ Len(hist) = 2 /\ Failed(1) /\ Returned(2)
  /\ Len(inputs) = 2 /\ Len(outputs) = 1
  /\ inOwner[1] = 1 /\ outOwner[1] = 2

\* The transcript of the two lists, written out entry by entry.
ExpectedTranscript(printed) ==
  /\ Len(printed) = Len(inputs) + 1
  /\ printed[1] =
       QualName \o T(<<" ", "w", "a", "s", " ", "c", "a", "l", "l", "e", "d", " ">>)
       \o IntStr(Len(inputs)) \o T(<<" ", "t", "i", "m", "e", "s", ":">>)
  /\ \A i \in 1..Len(inputs) :
       printed[i + 1] =
         QualName \o T(<<"(", "*">>) \o Utf8Decode(inputs[i])
         \o T(<<")", " ", "-", ">", " ">>) \o Utf8Decode(outputs[i])

\* C9: replay changes nothing on the server; over lists of equal length N it
\* prints the header with N and then, for i = 1..N in order, the line pairing
\* the i-th input with the i-th output; over empty lists it prints the header
\* with 0 and nothing else, without error.
C9_ReplayTranscript ==
  [][\A p \in Procs :
       (result'[p].op = "replay" /\ result'[p] # result[p]) =>
         /\ UNCHANGED backend
         /\ (Len(inputs) = Len(outputs) /\ result'[p].out.kind = "ret") =>
              ExpectedTranscript(result'[p].printed)
         /\ (inputs = <<>> /\ outputs = <<>>) =>
              /\ result'[p].out = Ret(None)
              /\ Len(result'[p].printed) = 1
    ]_vars

\* C9's case: replay after two invocations that returned printed three lines.
C9_Witness ==
  /\ result[1].op = "replay" /\ result[1].out = Ret(None)
  /\ Len(inputs) = 2 /\ Len(outputs) = 2
  /\ Len(result[1].printed) = 3
  /\ result[1].printed[1] =
       T(<<"C", "a", "c", "h", "e", ".", "s", "t", "o", "r", "e", " ", "w", "a",
           "s", " ", "c", "a", "l", "l", "e", "d", " ", "2", " ", "t", "i", "m",
           "e", "s", ":">>)

\* C10: when the body of store raises, the caller of the decorated store gets
\* that exception; by then the call's input entry is the last of the input
\* list and the counter is one above its value at the start of the call, and
\* the output list is as it was at the start of the call.
C10_FailurePropagates ==
  /\ \A i \in 1..Len(hist) :
       (hist[i].ret.kind # "running" /\ hist[i].key = None) => Failed(i)
  /\ \A p \in Procs :
       (pc[p] = "idle" /\ result[p].op = "store" /\ result[p].out.kind = "raise") =>
         LET h == hist[Len(hist)] IN
         /\ h.ret = result[p].out
         /\ Len(inputs) = h.in0 + 1
         /\ inputs[Len(inputs)] = InputEntry(h.args, h.kwargs)
         /\ inOwner[Len(inputs)] = Len(hist)
         /\ CounterValue = h.c0 + 1
         /\ Len(outputs) = h.out0
         /\ \A i \in 1..Len(outputs) : outOwner[i] # Len(hist)

\* C10's case: store(None) has just raised DataError after a call that
\* returned: two input entries, one output entry, counter 2.
C10_Witness ==
  /\ pc[1] = "idle" /\ result[1].op = "store"
  /\ result[1].out = Raise("DataError")
  /\ Len(hist) = 2 /\ Returned(1) /\ hist[2].args = <<None>>
  /\ Len(inputs) = 2 /\ Len(outputs) = 1 /\ CounterValue = 2

\* The invocation client p is in the middle of.
Current(p) == hist[frame[p].id]

\* Client p moves from one place of its call to another.
Moves(p, from, to) == pc[p] = from /\ pc'[p] = to

\* C11 as stated: within an invocation the counter is incremented last, after
\* the output entry is appended; so while a call is in progress the counter is
\* still what it was when the call began.
C11_IncrementLast ==
  \A p \in Procs : pc[p] # "idle" => CounterValue = Current(p).c0

\* C11 amended: within an invocation the commands run in the order RPUSH of
\* the input entry, INCR of the counter, SET of the value under the generated
\* key, RPUSH of the output entry, each changing nothing else; and an
\* invocation is over before the next one of the same client begins.
C11_CommandOrder ==
  [][\A p \in Procs :
       /\ pc'[p] # pc[p] =>
            \/ Moves(p, "idle", "count")
            \/ Moves(p, "count", "body")
            \/ Moves(p, "body", "record")
            \/ Moves(p, "body", "idle")
            \/ Moves(p, "record", "idle")
       /\ Moves(p, "idle", "count") =>
            /\ Len(inputs') = Len(inputs) + 1
            /\ IsPrefix(inputs, inputs')
            /\ UNCHANGED <<counter, data, outputs>>
            /\ \A i \in 1..Len(hist) : hist[i].ret.kind # "running"
       /\ Moves(p, "count", "body") =>
            /\ CounterValue' = CounterValue + 1
            /\ UNCHANGED <<inputs, data, outputs>>
       /\ Moves(p, "body", "record") =>
            /\ \E k \in KeySpace :
                 /\ hist'[frame[p].id].key = StrV(k)
                 /\ data'[k] # None
                 /\ \A j \in KeySpace \ {k} : data'[j] = data[j]
            /\ UNCHANGED <<inputs, counter, outputs>>
       /\ Moves(p, "body", "idle") => UNCHANGED <<inputs, counter, data, outputs>>
       /\ Moves(p, "record", "idle") =>
            /\ Len(outputs') = Len(outputs) + 1
            /\ IsPrefix(outputs, outputs')
            /\ UNCHANGED <<inputs, counter, data>>
    ]_vars

\* C11's case: a call is between its SET and its output RPUSH: the input entry
\* is in, the counter is already one higher, the key is written, the output
\* list is as it was.
C11_Witness ==
  /\ pc[1] = "record"
  /\ Len(hist) = 2 /\ Returned(1)
  /\ Len(inputs) = Current(1).in0 + 1
  /\ CounterValue = Current(1).c0 + 1
  /\ data[Current(1).key.val] # None
  /\ Len(outputs) = Current(1).out0

\* The number of entries of an owner list that belong to invocation i.
Occurrences(owners, i) ==
  Cardinality({j \in 1..Len(owners) : owners[j] = i})

\* Every invocation so far has returned and no client is inside a call.
AllReturned == Quiescent /\ \A i \in 1..Len(hist) : Returned(i)

\* C12: with concurrent callers and atomic commands, the i-th input entry is
\* the argument tuple of the i-th call to start and the i-th output entry is
\* the key returned by the i-th call to finish; nothing ties the two orders
\* together, so the entries at one index may belong to different calls.
C12_EntriesFollowCommandOrder ==
  /\ \A i \in 1..Len(inputs) :
       /\ inOwner[i] = i
       /\ inputs[i] = Utf8Encode(TupleStr(hist[i].args))
  /\ \A i \in 1..Len(outputs) :
       /\ outOwner[i] \in 1..Len(hist)
       /\ Returned(outOwner[i])
       /\ hist[outOwner[i]].ret.val.type = "str"
       /\ outputs[i] = Utf8Encode(hist[outOwner[i]].ret.val.val)
  /\ \A i, j \in 1..Len(outputs) : outOwner[i] = outOwner[j] => i = j

\* C12's case: two calls with different arguments overlapped and returned
\* different keys; the first input entry is the first call's arguments, the
\* first output entry is the key the second call returned.
C12_Witness ==
  /\ AllReturned /\ Len(hist) = 2
  /\ hist[1].args # hist[2].args
  /\ hist[1].ret # hist[2].ret
  /\ Len(hist[1].args) = 1 /\ Len(hist[2].args) = 1
  /\ inputs[1] = Utf8Encode(TupleStr(hist[1].args))
  /\ outputs[1] = Utf8Encode(hist[2].ret.val.val)
  /\ outputs[1] # Utf8Encode(hist[1].ret.val.val)

\* C13: once K concurrent calls have all returned, the counter is K, both
\* lists have K entries, and every call owns exactly one entry of each list,
\* the input entry being its arguments and the output entry its key.
C13_NoLostUpdate ==
  AllReturned =>
    /\ CounterValue = Len(hist)
    /\ Len(inputs) = Len(hist)
    /\ Len(outputs) = Len(hist)
    /\ \A i \in 1..Len(hist) :
         /\ Occurrences(inOwner, i) = 1
         /\ Occurrences(outOwner, i) = 1
         /\ \E j \in 1..Len(inputs) :
              inOwner[j] = i /\ inputs[j] = Utf8Encode(TupleStr(hist[i].args))
         /\ \E j \in 1..Len(outputs) :
              outOwner[j] = i /\ outputs[j] = Utf8Encode(hist[i].ret.val.val)

\* C13's case: two calls overlapped (the second to start was the first to
\* finish), both returned, and the counter is 2 with two entries in each list.
C13_Witness ==
  /\ AllReturned /\ Len(hist) = 2
  /\ outOwner = <<2, 1>>
  /\ CounterValue = 2 /\ Len(inputs) = 2 /\ Len(outputs) = 2

\* C14: at every moment the output list is no longer than the counter and the
\* counter is no greater than the length of the input list.
C14_OutputsCounterInputs ==
  /\ Len(outputs) <= CounterValue
  /\ CounterValue <= Len(inputs)

\* C14's case: one call has failed and another is in progress, its input
\* entry appended and its INCR still to come: 0 outputs, counter 1, 2 inputs.
C14_Witness ==
  /\ Len(hist) = 2 /\ Failed(1)
  /\ \E p \in Procs : pc[p] = "count"
  /\ Len(outputs) = 0 /\ CounterValue = 1 /\ Len(inputs) = 2

\* The invocations whose SET was done.
Stored == {i \in 1..Len(hist) : hist[i].key # None}

\* The identifier generator gave no key twice.
KeysNeverRepeat ==
  \A i, j \in Stored : hist[i].key = hist[j].key => i = j

\* C15: as long as the generator repeats no key (and the database was not
\* flushed), every key a call of store wrote still holds the bytes of the value
\* of that call, whatever was stored afterwards, and the database holds as many
\* data keys as there were stores; between calls these are the returned calls.
C15_StoredPairsKept ==
  (~reset /\ KeysNeverRepeat) =>
    /\ \A i \in Stored :
         data[hist[i].key.val] =
           BytesV(Encode(BoundData(hist[i].args, hist[i].kwargs)))
    /\ Cardinality({k \in KeySpace : data[k] # None}) = Cardinality(Stored)
    /\ Quiescent => Stored = {i \in 1..Len(hist) : Returned(i)}

\* C15's case: store(-12) returned "k2", then store(15.0) returned "k1"; "k2"
\* still holds b"-12" and "k1" holds b"1.5", two data keys in all.
C15_Witness ==
  /\ ~reset /\ Quiescent /\ Len(hist) = 2
  /\ hist[1].args = <<IntV(-12)>> /\ hist[1].ret = Ret(StrV(KeyStr(2)))
  /\ hist[2].args = <<FloatV(15)>> /\ hist[2].ret = Ret(StrV(KeyStr(1)))
  /\ data[KeyStr(2)] = BytesV(T(<<"-", "1", "2">>))
  /\ data[KeyStr(1)] = BytesV(T(<<"1", ".", "5">>))

\* C16: a step in which a client calls get, get_str or get_int (no call of
\* store moves and the client's latest result is a read's) leaves the counter,
\* both lists and every stored key as they were.
C16_ReadsChangeNothing ==
  [][\A p \in Procs :
       (pc' = pc /\ result'[p].op \in Reads) => UNCHANGED backend]_vars

\* C16's case: after two stores, get_str read a key that is present; the
\* counter, the lists and both keys are what the two stores left.
C16_Witness ==
  /\ ~reset /\ Len(hist) = 2 /\ AllReturned
  /\ result[1].op = "get_str"
  /\ result[1].data # None
  /\ CounterValue = 2 /\ Len(inputs) = 2 /\ Len(outputs) = 2
  /\ \A k \in KeySpace : data[k] # None

\* b"()", the string form of the empty tuple.
EmptyTupleEntry == <<40, 41>>

TopicsUpdated(before, name, topics) ==
  [i \in 1..Len(before) |->
     IF "name" \in DOMAIN before[i] /\ before[i]["name"] = name
     THEN Merge(before[i], [f \in {"topics"} |-> topics])
     ELSE before[i]]

\* C18: a call of update_topics returns without an exception and leaves the
\* collection with the topics of every document of the given name set to the
\* given topics and nothing else changed.
C18_UpdateTopicsSetsTopics ==
  mres.op = "update_topics" =>
    /\ mres.out.kind = "ret"
    /\ coll = TopicsUpdated(mres.before, mres.name, mres.topics)

\* C18's case: update_topics was called with the name of a school that is in
\* the collection.
C18_Witness ==
  /\ mres.op = "update_topics"
  /\ \E i \in 1..Len(mres.before) : mres.before[i]["name"] = mres.name

=============================================================================
